---------------------------- MODULE Spec2Model ----------------------------
(***************************************************************************)
(* A model of package pbkdf2 (src/pbkdf2/pbkdf2.go): the incremental       *)
(* PBKDF2 state (New, Next, Reset), the time-bounded control loop (derive, *)
(* Derive, Search) and the dual-clock timer (timer.elapsed).               *)
(*                                                                         *)
(* Go byte slices are modelled with their storage: the heap maps an        *)
(* address to a backing array, and a slice is a window [arr, off, len,     *)
(* cap] on one array, so that two slices can share storage as kdf.t and    *)
(* kdf.u do.  The keyed hash (crypto/hmac) is outside the package; it is   *)
(* modelled as a deterministic keyed function of the absorbed bytes with a *)
(* digest of hLen bytes.                                                   *)
(***************************************************************************)
EXTENDS Integers, Sequences, FiniteSets, TLC

(***************************************************************************)
(* Bounds of the model.                                                    *)
(***************************************************************************)
\* digest size of the modelled hash, in bytes (prf.Size())
hLen == 2
\* largest key length given to New and Reset
MaxDkLen == 3
\* largest count a caller passes to Next directly
MaxCount == 3
\* direct Next calls explored after each New, Reset, Derive or Search
MaxCalls == 3
\* largest duration (in clock ticks) given to Derive and Search
MaxD == 1
\* largest precision given to derive directly
MaxP == 11
\* largest number of ticks either clock advances during one batch
MaxDt == 1
\* batches of one Derive/Search call after the initial one
MaxBatches == 2

(***************************************************************************)
(* Bytes.                                                                  *)
(***************************************************************************)
Byte == 0..255

\* byte(x): the conversion of an int to a byte keeps the low 8 bits
byte(x) == x % 256

RECURSIVE BitXor(_, _, _)
BitXor(a, b, k) ==
  IF k = 0 THEN 0
  ELSE ((a + b) % 2) + 2 * BitXor(a \div 2, b \div 2, k - 1)

\* a ^ b on bytes
XorTable == [a \in Byte |-> [b \in Byte |-> BitXor(a, b, 8)]]

xor(a, b) == XorTable[a][b]

\* i >> k on a non-negative int
shr(i, k) == i \div (2 ^ k)

(***************************************************************************)
(* The keyed hash: hmac.New(h, pass), Reset, Write, Sum, Size.  Its state  *)
(* is the key and the bytes absorbed since the last Reset; Sum is a        *)
(* deterministic function of both and leaves the state alone.              *)
(***************************************************************************)
RECURSIVE absorb(_, _, _)
absorb(h, msg, i) ==
  IF i > Len(msg) THEN h
  ELSE absorb((h * 33 + msg[i] + 1) % 65521, msg, i + 1)

hmacNew(pass) == [key |-> pass, data |-> <<>>]

prfReset(prf) == [prf EXCEPT !.data = <<>>]

prfWrite(prf, bytes) == [prf EXCEPT !.data = @ \o bytes]

\* the bytes k..hLen of the digest with inner value h
RECURSIVE digestFrom(_, _)
digestFrom(h, k) ==
  IF k > hLen THEN <<>>
  ELSE <<(((h * (2 * k + 29) + 7 * k) % 65521) \div 16) % 256>> \o digestFrom(h, k + 1)

\* the digest of the absorbed bytes under the key
prfDigest(prf) ==
  LET inner == absorb(absorb(5381, prf.key, 1), prf.data, 1)
      outer == absorb(absorb(inner, prf.key, 1), <<Len(prf.data) % 256>>, 1)
  IN  digestFrom(outer, 1)

(***************************************************************************)
(* Slices and their storage.                                               *)
(***************************************************************************)
\* the nil slice
NilSlice == [arr |-> 0, off |-> 0, len |-> 0, cap |-> 0]

\* the bytes a slice shows
Bytes(heap, s) ==
  IF s.len = 0 THEN <<>> ELSE SubSeq(heap[s.arr], s.off + 1, s.off + s.len)

\* n zero bytes
RECURSIVE zeros(_)
zeros(n) == IF n <= 0 THEN <<>> ELSE Append(zeros(n - 1), 0)

\* a fresh address
NewAddr(heap) == CHOOSE a \in 1..(Cardinality(DOMAIN heap) + 1) : a \notin DOMAIN heap

\* an array at address a, and the slice of its first len bytes
arrayAt(heap, a, bytes, len) ==
  [heap |-> heap @@ (a :> bytes),
   s    |-> [arr |-> a, off |-> 0, len |-> len, cap |-> Len(bytes)]]

\* make([]byte, len, cap)
make(heap, len, cap) == arrayAt(heap, NewAddr(heap), zeros(cap), len)

\* a byte-string literal of the caller, in storage of its own
literal(heap, bytes) == arrayAt(heap, NewAddr(heap), bytes, Len(bytes))

\* s[lo:hi]
slice(s, lo, hi) ==
  [arr |-> s.arr, off |-> s.off + lo, len |-> hi - lo, cap |-> s.cap - lo]

\* s[i] = v
store(heap, s, i, v) == [heap EXCEPT ![s.arr][s.off + i + 1] = v]

\* s[i]
load(heap, s, i) == heap[s.arr][s.off + i + 1]

\* copy(dst, src): min(len(dst), len(src)) bytes, front to back
RECURSIVE copyFrom(_, _, _, _)
copyFrom(heap, dst, src, i) ==
  IF i >= dst.len \/ i >= src.len THEN heap
  ELSE copyFrom(store(heap, dst, i, load(heap, src, i)), dst, src, i + 1)

copy(heap, dst, src) == copyFrom(heap, dst, src, 0)

\* the slice m.s, just made, filled from b
filled(m, b) == [heap |-> copy(m.heap, m.s, b), s |-> m.s]

\* a dup that hands out its argument instead of a copy
alias(heap, b) == [heap |-> heap, s |-> b]

\* dup(b): t := make([]byte, len(b)); copy(t, b); return t
dup(heap, b) == filled(make(heap, b.len, b.len), b)

\* bytes[i..] stored at s[at], s[at+1], ...
RECURSIVE storeAll(_, _, _, _, _)
storeAll(heap, s, at, bytes, i) ==
  IF i > Len(bytes) THEN heap
  ELSE storeAll(store(heap, s, at + i - 1, bytes[i]), s, at, bytes, i + 1)

\* append when the capacity does not allow it: in and bytes go to the new
\* array m
appendTo(m, in, bytes) ==
  [heap |-> storeAll(copy(m.heap, m.s, in), m.s, in.len, bytes, 1), s |-> m.s]

\* append(in, bytes...), as hash.Sum(in) does: in place when the capacity
\* allows, in new storage otherwise
append(heap, in, bytes) ==
  IF in.len + Len(bytes) <= in.cap
  THEN [heap |-> storeAll(heap, in, in.len, bytes, 1),
        s    |-> [in EXCEPT !.len = in.len + Len(bytes)]]
  ELSE appendTo(make(heap, in.len + Len(bytes), in.len + Len(bytes)), in, bytes)

\* prf.Sum(in)
prfSum(prf, heap, in) == append(heap, in, prfDigest(prf))

(***************************************************************************)
(* type PBKDF2 struct: prf, dkLen, salt, t, u, iters.                      *)
(***************************************************************************)
\* the struct New makes, d being dup(salt)
newState(d, pass, dkLen) ==
  [heap |-> d.heap,
   kdf  |-> [prf |-> hmacNew(pass), dkLen |-> dkLen, salt |-> d.s,
             t |-> NilSlice, u |-> NilSlice, iters |-> 0]]

\* New(pass, salt, dkLen, h): a state at zero iterations, with its own copy
\* of the salt
New(heap, pass, salt, dkLen) == newState(dup(heap, salt), pass, dkLen)

\* BigEndian32(i): byte(i >> 24), byte(i >> 16), byte(i >> 8), byte(i)
blockIndex(i) ==
  <<byte(shr(i, 24)), byte(shr(i, 16)), byte(shr(i, 8)), byte(i)>>

\* The loops of Next work on st = [prf, heap, s, panic]: prf is the local
\* prf := kdf.prf, s is the slice the last prf.Sum returned, and panic is ""
\* until a run-time check of Go (a slice bound, an index) fails; the loops
\* stop where it does.  Every use of the hash starts with prf.Reset(), so
\* the input a use leaves in it is never read again; the struct keeps the
\* hash as New made it.
summed(prf, r) == [prf |-> prf, heap |-> r.heap, s |-> r.s, panic |-> ""]

\* in = prf.Sum(in)
sumInto(prf, heap, in) == summed(prf, prfSum(prf, heap, in))

\* for i := 1; i <= n; i++: t = PRF(salt || BigEndian32(i)) appended to t
RECURSIVE firstBlocks(_, _, _, _)
firstBlocks(st, salt, i, n) ==
  IF i > n THEN st
  ELSE firstBlocks(sumInto(prfWrite(prfWrite(prfReset(st.prf), Bytes(st.heap, salt)),
                                    blockIndex(i)),
                           st.heap, st.s),
                   salt, i + 1, n)

\* n := (kdf.dkLen + hLen - 1) / hLen
blocks(kdf) == (kdf.dkLen + hLen - 1) \div hLen

\* the same without copy(kdf.u, kdf.t)
withBuffersNoCopy(kdf, fb, t, u) ==
  [kdf  |-> [kdf EXCEPT !.t = t, !.u = u, !.iters = 1],
   heap |-> fb.heap]

\* kdf.t, kdf.u = t, t[len(t):cap(t)]; copy(kdf.u, kdf.t); kdf.iters = 1
withBuffers(kdf, fb, t, u) ==
  [kdf  |-> [kdf EXCEPT !.t = t, !.u = u, !.iters = 1],
   heap |-> copy(fb.heap, u, t)]

\* the same with u the very bytes of t
nextBuffersAlias(kdf, fb) == withBuffers(kdf, fb, fb.s, fb.s)

\* the block of Next that runs when kdf.iters == 0, fb being the U_1 blocks
nextBuffers(kdf, fb) == withBuffers(kdf, fb, fb.s, slice(fb.s, fb.s.len, fb.s.cap))

\* t := make([]byte, 0, 2*n*hLen), before the loop over the blocks
madeT(prf, m) == [prf |-> prf, heap |-> m.heap, s |-> m.s, panic |-> ""]

\* the block of Next that runs when kdf.iters == 0: it allocates t and u in
\* one array, fills t with the U_1 blocks and copies them to u
nextInit(kdf, heap) ==
  nextBuffers(kdf, firstBlocks(madeT(kdf.prf, make(heap, 0, 2 * blocks(kdf) * hLen)),
                               kdf.salt, 1, blocks(kdf)))

\* for j := 0; j < len(u); j += hLen: u[j:j+hLen] = PRF(u[j:j+hLen])
RECURSIVE hashBlocks(_, _, _)
hashBlocks(st, u, j) ==
  IF st.panic /= "" \/ j >= u.len THEN st
  ELSE IF j + hLen > u.cap
  THEN [st EXCEPT !.panic = "slice bounds out of range"]
  ELSE hashBlocks(sumInto(prfWrite(prfReset(st.prf),
                                   Bytes(st.heap, slice(u, j, j + hLen))),
                          st.heap, slice(u, 0, j)),
                  u, j + hLen)

\* for j, v := range u: t[j] ^= v
RECURSIVE xorInto(_, _, _, _)
xorInto(st, t, u, j) ==
  IF st.panic /= "" \/ j >= u.len THEN st
  ELSE IF j >= t.len
  THEN [st EXCEPT !.panic = "index out of range"]
  ELSE xorInto([st EXCEPT !.heap = store(@, t, j, xor(load(@, t, j), load(@, u, j)))],
               t, u, j + 1)

\* one round of the loop over i
round(st, t, u) == xorInto(hashBlocks(st, u, 0), t, u, 0)

\* for i := 0; i < c; i++: c rounds one after the other, the first half of
\* them and then the rest (which keeps the evaluation shallow)
RECURSIVE rounds(_, _, _, _)
rounds(st, t, u, c) ==
  IF st.panic /= "" \/ c <= 0 THEN st
  ELSE IF c = 1 THEN round(st, t, u)
  ELSE rounds(rounds(st, t, u, c \div 2), t, u, c - (c \div 2))

\* what Next returns: d is dup(t[:kdf.dkLen])
returned(kdf, d) == [kdf |-> kdf, heap |-> d.heap, ret |-> d.s, panic |-> ""]

\* kdf.iters += c; return dup(t[:kdf.dkLen]), r being the state the loop
\* over i left
nextReturn(kdf, r, c) ==
  IF r.panic /= ""
  THEN [kdf |-> kdf, heap |-> r.heap, ret |-> NilSlice, panic |-> r.panic]
  ELSE IF kdf.dkLen > kdf.t.cap
  THEN [kdf |-> [kdf EXCEPT !.iters = @ + c], heap |-> r.heap,
        ret |-> NilSlice, panic |-> "slice bounds out of range"]
  ELSE returned([kdf EXCEPT !.iters = @ + c],
                dup(r.heap, slice(kdf.t, 0, kdf.dkLen)))

\* t, u := kdf.t, kdf.u and the loop over i, from the state s
nextRounds(s, c) ==
  nextReturn(s.kdf,
             rounds([prf |-> s.kdf.prf, heap |-> s.heap, s |-> NilSlice, panic |-> ""],
                    s.kdf.t, s.kdf.u, c),
             c)

\* a Next that makes the buffers anew on every call
NextRestarts(kdf, heap, c) ==
  IF c <= 0
  THEN [kdf |-> kdf, heap |-> heap, ret |-> NilSlice,
        panic |-> "pbkdf2: invalid iteration count"]
  ELSE nextRounds(nextInit(kdf, heap), c - 1)

\* a Next that checks its count after making the buffers
NextLate(kdf, heap, c) ==
  IF kdf.iters = 0
  THEN IF c <= 0
       THEN [kdf |-> nextInit(kdf, heap).kdf, heap |-> nextInit(kdf, heap).heap,
             ret |-> NilSlice, panic |-> "pbkdf2: invalid iteration count"]
       ELSE nextRounds(nextInit(kdf, heap), c - 1)
  ELSE IF c <= 0
  THEN [kdf |-> kdf, heap |-> heap, ret |-> NilSlice,
        panic |-> "pbkdf2: invalid iteration count"]
  ELSE nextRounds([kdf |-> kdf, heap |-> heap], c)

\* a Next without the c-- of its first call
NextNoDec(kdf, heap, c) ==
  IF c <= 0
  THEN [kdf |-> kdf, heap |-> heap, ret |-> NilSlice,
        panic |-> "pbkdf2: invalid iteration count"]
  ELSE IF kdf.iters = 0
  THEN nextRounds(nextInit(kdf, heap), c)
  ELSE nextRounds([kdf |-> kdf, heap |-> heap], c)

\* Next(c): c more iterations and a copy of the new key; the outcome is the
\* state, the storage, the slice returned and the panic, if any.  The first
\* call makes the buffers, which counts as one iteration.
Next(kdf, heap, c) ==
  IF c <= 0
  THEN [kdf |-> kdf, heap |-> heap, ret |-> NilSlice,
        panic |-> "pbkdf2: invalid iteration count"]
  ELSE IF kdf.iters = 0
  THEN nextRounds(nextInit(kdf, heap), c - 1)
  ELSE nextRounds([kdf |-> kdf, heap |-> heap], c)

\* the bytes of the key a call of Next returned
keyOf(r) == Bytes(r.heap, r.ret)

\* New(pass, salt, dkLen, h).Next(iter), n being the new state
firstNext(n, iter) == keyOf(Next(n.kdf, n.heap, iter))

\* New(pass, salt, dkLen, h), l being the caller's salt
newFrom(l, pass, dkLen) == New(l.heap, pass, l.s, dkLen)

\* Key(pass, salt, iter, dkLen, h): New(pass, salt, dkLen, h).Next(iter)
Key(pass, salt, iter, dkLen) ==
  firstNext(newFrom(literal(<<>>, salt), pass, dkLen), iter)

\* Salt(), Size(), Iters()
Salt(kdf, heap) == dup(heap, kdf.salt)

Size(kdf) == kdf.dkLen

Iters(kdf) == kdf.iters

\* the same without kdf.iters = 0
clearedKeeps(kdf, heap) ==
  [kdf  |-> [kdf EXCEPT !.t = NilSlice, !.u = NilSlice],
   heap |-> heap]

\* the same without kdf.t = nil and kdf.u = nil
clearedIters(kdf, heap) ==
  [kdf  |-> [kdf EXCEPT !.iters = 0],
   heap |-> heap]

\* kdf.t = nil; kdf.u = nil; kdf.iters = 0
cleared(kdf, heap) ==
  [kdf  |-> [kdf EXCEPT !.t = NilSlice, !.u = NilSlice, !.iters = 0],
   heap |-> heap]

\* kdf.salt = dup(salt), d being dup(salt)
withSalt(kdf, d) == cleared([kdf EXCEPT !.salt = d.s], d.heap)

\* a Reset that takes a salt of no bytes for no salt
resetSaltLen(kdf, heap, salt) ==
  IF salt.len > 0 THEN withSalt(kdf, dup(heap, salt)) ELSE cleared(kdf, heap)

\* if salt != nil { kdf.salt = dup(salt) } and the rest of Reset
resetSalt(kdf, heap, salt) ==
  IF salt /= NilSlice THEN withSalt(kdf, dup(heap, salt)) ELSE cleared(kdf, heap)

\* a Reset that does nothing
ResetNot(kdf, heap, salt, dkLen) == [kdf |-> kdf, heap |-> heap]

\* Reset(salt, dkLen): back to zero iterations; a positive dkLen and a
\* non-nil salt replace the stored ones
Reset(kdf, heap, salt, dkLen) ==
  resetSalt(IF dkLen > 0 THEN [kdf EXCEPT !.dkLen = dkLen] ELSE kdf, heap, salt)

(***************************************************************************)
(* The timer.  Durations and clock readings are integers of TimeBits bits  *)
(* (time.Duration is an int64), in clock ticks.                            *)
(***************************************************************************)
TimeBits == 6

\* an integer as a two's-complement value of TimeBits bits
wrap(x) == ((x + 2 ^ (TimeBits - 1)) % (2 ^ TimeBits)) - 2 ^ (TimeBits - 1)

\* timer{time.Now(), utime()}
timer(wallNow, userNow) == [wall |-> wallNow, user |-> userNow]

\* an elapsed with wall > d for its lower limit
elapsedStrict(t, d, wallNow, userNow) ==
  IF wallNow - t.wall > d /\ wallNow - t.wall < wrap(d * 2)
  THEN userNow - t.user >= d
  ELSE wallNow - t.wall > d

\* an elapsed that goes by the user time alone
elapsedUser(t, d, wallNow, userNow) == userNow - t.user >= d

\* t.elapsed(d) when the wall clock reads wallNow and utime() userNow
elapsed(t, d, wallNow, userNow) ==
  LET wall == wallNow - t.wall
      emin == wall >= d
  IN  IF emin /\ wall < wrap(d * 2)
      THEN userNow - t.user >= d
      ELSE emin

\* const precision = 4
precision == 4

\* the count of the first batch of derive
FirstBatch == 1024

\* x / y truncated toward zero, as the conversion of a float64 to a
\* Duration truncates
quot(x, y) == IF x >= 0 THEN x \div y ELSE -((-x) \div y)

\* r := 1.0 / float64(uint(1)<<p); d -= time.Duration(float64(d) * r / (r + 2)):
\* r / (r + 2) is 1 / (2^(p+1) + 1)
adjust(d, p) == d - quot(d, 2 ^ (p + 1) + 1)

(***************************************************************************)
(* The state: one PBKDF2 value and its caller.                             *)
(*   kdf, heap   the PBKDF2 struct and the storage of every live slice     *)
(*   dk, err     the key and the error of the call in progress (derive's   *)
(*               named results) or of the last call that returned          *)
(*   main        the caller: "idle", or "wait" (blocked on <-ch in derive) *)
(*   pc          the goroutine of derive: "none", "start", "pred",         *)
(*               "batch", "exit", or "crash" after a panic                 *)
(*   ch          derive's channel: "none", "open", "closed"                *)
(*   call        the call in progress or last made: kind, d (as given),    *)
(*               dd (d as adjusted), p, f                                  *)
(*   tm          the timer of the call                                     *)
(*   now, cpu    the wall clock and utime()                                *)
(* and, to state the properties:                                           *)
(*   log         the predicate's invocations in the call: the iteration    *)
(*               count, the key it was given, the bytes of that key when   *)
(*               it returned, and its answer                               *)
(*   batches     the Next calls the goroutine has made in the call         *)
(*   sum         the counts of the successful Next calls since the state   *)
(*               was last at zero iterations                               *)
(*   calls       the Next calls the caller made since then                 *)
(*   epoch       how the state last came to zero iterations, and whether   *)
(*               it had advanced before                                    *)
(*   last        the caller's last operation and its outcome               *)
(*   want        the key and Iters() the caller kept from a Derive         *)
(***************************************************************************)
VARIABLES kdf, heap, dk, err, main, pc, ch, call, tm, now, cpu,
          log, batches, sum, calls, epoch, last, want

vars == <<kdf, heap, dk, err, main, pc, ch, call, tm, now, cpu,
          log, batches, sum, calls, epoch, last, want>>

\* the inputs explored
Passwords == {<<112, 119>>}

Salts == {<<>>, <<115>>}

\* the salt given to Reset: nil, or bytes (possibly none)
SaltArgs == {[nil |-> TRUE, b |-> <<>>]} \cup {[nil |-> FALSE, b |-> x] : x \in Salts}

NIL == "nil"

\* the clocks' readings when a call starts
WallEpoch == 1

UserEpoch == 2

\* the durations explored: the small ones, and a negative one whose double
\* does not fit the width
Durations == ((-1)..MaxD) \cup {-(2 ^ (TimeBits - 2)) - 1}

\* what a predicate may answer: nil, KeyFound, or an error of its own
KeyFound == "pbkdf2: key found"

ErrTimeout == "pbkdf2: key search timeout"

ErrOther == "other"

\* the arrays referenced, in the order salt, t, u and the caller's key
roots(k, d) == <<k.salt.arr, k.t.arr, k.u.arr, d.arr>>

\* the place of array a among the distinct arrays of as
rank(a, as) ==
  IF a = 0 \/ \A i \in 1..Len(as) : as[i] /= a THEN 0
  ELSE Cardinality({as[j] : j \in 1..(CHOOSE i \in 1..Len(as) :
                      as[i] = a /\ \A l \in 1..(i - 1) : as[l] /= a)} \ {0})

\* slice s with its array named by its rank
moved(s, as) == [s EXCEPT !.arr = rank(s.arr, as)]

\* the garbage collector: the storage still referenced is kept, everything
\* else is garbage.  Addresses carry no meaning beyond identity, and the
\* arrays kept are named in the order of roots
kept(h, as) ==
  [n \in 1..Cardinality({as[j] : j \in 1..Len(as)} \ {0}) |->
     h[CHOOSE a \in DOMAIN h : rank(a, as) = n]]

live(h, k, d) ==
  [heap |-> kept(h, roots(k, d)),
   kdf  |-> [k EXCEPT !.salt = moved(k.salt, roots(k, d)),
                      !.t = moved(k.t, roots(k, d)),
                      !.u = moved(k.u, roots(k, d))],
   dk   |-> moved(d, roots(k, d))]

NoCall == [kind |-> "none", d |-> 0, dd |-> 0, p |-> 0, f |-> "none"]

NoWant == [set |-> FALSE, key |-> <<>>, itr |-> 0]

Init ==
  \E pass \in Passwords, salt \in Salts, n \in 0..MaxDkLen :
    \E k \in {newFrom(literal(<<>>, salt), pass, n)} :
     \E g \in {live(k.heap, k.kdf, NilSlice)} :
      /\ kdf = g.kdf
      /\ heap = g.heap
      /\ dk = g.dk
      /\ err = NIL
      /\ main = "idle"
      /\ pc = "none"
      /\ ch = "none"
      /\ call = NoCall
      /\ tm = timer(0, 0)
      /\ now = WallEpoch
      /\ cpu = UserEpoch
      /\ log = <<>>
      /\ batches = 0
      /\ sum = 0
      /\ calls = 0
      /\ epoch = [by |-> "New", used |-> FALSE]
      /\ last = [op |-> "New", panic |-> ""]
      /\ want = NoWant

\* the caller calls kdf.Next(c) and keeps the key returned; a call that
\* panics leaves the caller with the key it had.  The caller no longer looks
\* at the results of an earlier Derive or Search
NextCall(c) ==
  /\ main = "idle"
  /\ calls < MaxCalls
  /\ \E r \in {Next(kdf, heap, c)} :
       /\ \E g \in {live(r.heap, r.kdf, IF r.panic = "" THEN r.ret ELSE dk)} :
            /\ kdf' = g.kdf
            /\ heap' = g.heap
            /\ dk' = g.dk
       /\ sum' = IF r.panic = "" THEN sum + c ELSE sum
       /\ calls' = IF r.panic = "" THEN calls + 1 ELSE calls
       /\ last' = [op |-> "Next", panic |-> r.panic]
  /\ err' = NIL
  /\ call' = NoCall
  /\ log' = <<>>
  /\ batches' = 0
  /\ want' = NoWant
  /\ UNCHANGED <<main, pc, ch, tm, now, cpu, epoch>>

\* the caller's salt argument as a slice: nil, or a literal
saltSlice(h, salt) ==
  IF salt.nil THEN [heap |-> h, s |-> NilSlice] ELSE literal(h, salt.b)

\* kdf.Reset(salt, dkLen), l being the caller's salt
resetFrom(l, n) == Reset(kdf, l.heap, l.s, n)

\* the caller calls kdf.Reset(salt, dkLen); it lets go of the key it held
\* and of the results of an earlier Derive or Search
ResetCall(salt, n) ==
  /\ main = "idle"
  /\ \E r \in {resetFrom(saltSlice(heap, salt), n)} :
       \E g \in {live(r.heap, r.kdf, NilSlice)} :
         /\ kdf' = g.kdf
         /\ heap' = g.heap
         /\ dk' = g.dk
  /\ err' = NIL
  /\ call' = NoCall
  /\ log' = <<>>
  /\ batches' = 0
  /\ want' = NoWant
  /\ sum' = 0
  /\ calls' = 0
  /\ epoch' = [by |-> IF salt.nil /\ n = 0 THEN "Reset(nil, 0)" ELSE "Reset",
               used |-> kdf.iters > 0]
  /\ last' = [op |-> "Reset", panic |-> ""]
  /\ UNCHANGED <<main, pc, ch, tm, now, cpu>>

\* every byte of the slice complemented
RECURSIVE overwrite(_, _, _)
overwrite(h, s, i) ==
  IF i >= s.len THEN h
  ELSE overwrite(store(h, s, i, xor(load(h, s, i), 255)), s, i + 1)

\* the caller overwrites the bytes of the key it holds
Scribble ==
  /\ main = "idle"
  /\ dk.len > 0
  /\ heap' = overwrite(heap, dk, 0)
  /\ last' = [op |-> "Scribble", panic |-> ""]
  /\ UNCHANGED <<kdf, dk, err, main, pc, ch, call, tm, now, cpu, log, batches,
                 sum, calls, epoch, want>>

\* a derive that does not begin with Reset(nil, 0)
deriveCallNoReset(kind, d, p, f) ==
  /\ main = "idle"
  /\ IF p > 10
     THEN /\ last' = [op |-> kind, panic |-> "pbkdf2: invalid derivation precision"]
          /\ UNCHANGED <<kdf, heap, dk, err, main, pc, ch, call, log, batches,
                         sum, calls, epoch>>
     ELSE \E r \in {[kdf |-> kdf, heap |-> heap]} :
              /\ \E g \in {live(r.heap, r.kdf, NilSlice)} :
                   /\ kdf' = g.kdf
                   /\ heap' = g.heap
                   /\ dk' = g.dk
              /\ err' = NIL
              /\ main' = "wait"
              /\ pc' = "start"
              /\ ch' = "open"
              /\ call' = [kind |-> kind, d |-> d, dd |-> d, p |-> p, f |-> f]
              /\ log' = <<>>
              /\ batches' = 0
              /\ sum' = 0
              /\ calls' = 0
              /\ epoch' = [by |-> "derive", used |-> kdf.iters > 0]
              /\ last' = [op |-> kind, panic |-> ""]
  /\ want' = IF f = "tryKey" THEN want ELSE NoWant
  /\ UNCHANGED <<tm, now, cpu>>

\* a derive that resets the state before it checks the precision
deriveCallLate(kind, d, p, f) ==
  /\ main = "idle"
  /\ \E r \in {Reset(kdf, heap, NilSlice, 0)} :
       /\ \E g \in {live(r.heap, r.kdf, IF p > 10 THEN dk ELSE NilSlice)} :
            /\ kdf' = g.kdf
            /\ heap' = g.heap
            /\ dk' = g.dk
       /\ sum' = 0
       /\ calls' = 0
       /\ epoch' = [by |-> "derive", used |-> kdf.iters > 0]
  /\ IF p > 10
     THEN /\ last' = [op |-> kind, panic |-> "pbkdf2: invalid derivation precision"]
          /\ UNCHANGED <<err, main, pc, ch, call, log, batches>>
     ELSE /\ err' = NIL
          /\ main' = "wait"
          /\ pc' = "start"
          /\ ch' = "open"
          /\ call' = [kind |-> kind, d |-> d, dd |-> d, p |-> p, f |-> f]
          /\ log' = <<>>
          /\ batches' = 0
          /\ last' = [op |-> kind, panic |-> ""]
  /\ want' = IF f = "tryKey" THEN want ELSE NoWant
  /\ UNCHANGED <<tm, now, cpu>>

\* derive(d, p, f) up to the start of its goroutine: the precision is
\* checked, the state reset, the channel made and the goroutine started; the
\* caller then waits on the channel
deriveCall(kind, d, p, f) ==
  /\ main = "idle"
  /\ IF p > 10
     THEN /\ last' = [op |-> kind, panic |-> "pbkdf2: invalid derivation precision"]
          /\ UNCHANGED <<kdf, heap, dk, err, main, pc, ch, call, log, batches,
                         sum, calls, epoch>>
     ELSE \E r \in {Reset(kdf, heap, NilSlice, 0)} :
              /\ \E g \in {live(r.heap, r.kdf, NilSlice)} :
                   /\ kdf' = g.kdf
                   /\ heap' = g.heap
                   /\ dk' = g.dk
              /\ err' = NIL
              /\ main' = "wait"
              /\ pc' = "start"
              /\ ch' = "open"
              /\ call' = [kind |-> kind, d |-> d, dd |-> d, p |-> p, f |-> f]
              /\ log' = <<>>
              /\ batches' = 0
              /\ sum' = 0
              /\ calls' = 0
              /\ epoch' = [by |-> "derive", used |-> kdf.iters > 0]
              /\ last' = [op |-> kind, panic |-> ""]
  /\ want' = IF f = "tryKey" THEN want ELSE NoWant
  /\ UNCHANGED <<tm, now, cpu>>

\* Derive(d): derive with the package's precision and a predicate that
\* always answers nil
DeriveCall(d) == deriveCall("Derive", d, precision, "nilf")

\* Search(d, f): derive with the package's precision and the caller's
\* predicate, which is either tryKey of TestKeyGen (KeyFound exactly for the
\* key kept from a Derive) or one that answers anything
SearchCall(d, f) ==
  /\ f = "tryKey" => want.set
  /\ deriveCall("Search", d, precision, f)

\* derive(d, p, f) called as it is, with any precision a uint can hold up
\* to MaxP and a predicate that always answers nil
deriveDirect(d, p) == deriveCall("derive", d, p, "nilf")

\* a goroutine whose first batch is half as long
WStartHalf ==
  /\ pc = "start"
  /\ \E r \in {Next(kdf, heap, (FirstBatch \div 2))} :
       /\ \E g \in {live(r.heap, r.kdf, r.ret)} :
            /\ kdf' = g.kdf
            /\ heap' = g.heap
            /\ dk' = g.dk
       /\ pc' = IF r.panic = "" THEN "pred" ELSE "crash"
       /\ sum' = IF r.panic = "" THEN sum + (FirstBatch \div 2) ELSE sum
  /\ call' = [call EXCEPT !.dd = adjust(call.d, call.p)]
  /\ tm' = timer(now, cpu)
  /\ batches' = 1
  /\ \E dt \in 0..MaxDt, du \in 0..MaxDt :
       /\ now' = now + dt
       /\ cpu' = cpu + du
  /\ UNCHANGED <<err, main, ch, log, calls, epoch, last, want>>

\* the goroutine up to its loop: d is adjusted, the timer made, and the
\* first batch run while the clocks advance
WStart ==
  /\ pc = "start"
  /\ \E r \in {Next(kdf, heap, FirstBatch)} :
       /\ \E g \in {live(r.heap, r.kdf, r.ret)} :
            /\ kdf' = g.kdf
            /\ heap' = g.heap
            /\ dk' = g.dk
       /\ pc' = IF r.panic = "" THEN "pred" ELSE "crash"
       /\ sum' = IF r.panic = "" THEN sum + FirstBatch ELSE sum
  /\ call' = [call EXCEPT !.dd = adjust(call.d, call.p)]
  /\ tm' = timer(now, cpu)
  /\ batches' = 1
  /\ \E dt \in 0..MaxDt, du \in 0..MaxDt :
       /\ now' = now + dt
       /\ cpu' = cpu + du
  /\ UNCHANGED <<err, main, ch, log, calls, epoch, last, want>>

\* what the predicate of the call may answer for the key dk
answers ==
  CASE call.f = "nilf"   -> {NIL}
    [] call.f = "tryKey" -> {IF Bytes(heap, dk) = want.key THEN KeyFound ELSE NIL}
    [] OTHER             -> {NIL, KeyFound, ErrOther}

\* whether the predicate of the call may overwrite the key it is given
writes == IF call.f = "anyf" /\ dk.len > 0 THEN BOOLEAN ELSE {FALSE}

\* a loop that looks at the time only, without asking the predicate
WPredSkips ==
  /\ pc = "pred"
  /\ pc' = IF elapsed(tm, call.dd, now, cpu) THEN "exit" ELSE "batch"
  /\ UNCHANGED <<kdf, heap, dk, err, main, ch, call, tm, now, cpu, log, batches,
                 sum, calls, epoch, last, want>>

\* if err = f(dk); err != nil || t.elapsed(d) { return }: the predicate is
\* asked, and the loop goes on only if it answers nil and the time has not
\* elapsed
WPred ==
  /\ pc = "pred"
  /\ \E res \in answers, wrote \in writes :
       /\ err' = res
       /\ heap' = IF wrote THEN overwrite(heap, dk, 0) ELSE heap
       /\ log' = Append(log, [iters |-> Iters(kdf), key |-> Bytes(heap, dk),
                              out |-> Bytes(heap', dk), res |-> res])
       /\ pc' = IF res /= NIL \/ elapsed(tm, call.dd, now, cpu)
                THEN "exit" ELSE "batch"
  /\ UNCHANGED <<kdf, dk, main, ch, call, tm, now, cpu, batches, sum, calls,
                 epoch, last, want>>

\* a batch whose key is dropped: kdf.Next(kdf.iters >> p) without dk =
WBatchDrops ==
  /\ pc = "batch"
  /\ batches <= MaxBatches
  /\ \E r \in {Next(kdf, heap, shr(kdf.iters, call.p))} :
       /\ \E g \in {live(r.heap, r.kdf, dk)} :
            /\ kdf' = g.kdf
            /\ heap' = g.heap
            /\ dk' = g.dk
       /\ pc' = IF r.panic = "" THEN "pred" ELSE "crash"
       /\ sum' = IF r.panic = "" THEN sum + shr(kdf.iters, call.p) ELSE sum
  /\ batches' = batches + 1
  /\ \E dt \in 0..MaxDt, du \in 0..MaxDt :
       /\ now' = now + dt
       /\ cpu' = cpu + du
  /\ UNCHANGED <<err, main, ch, call, tm, log, calls, epoch, last, want>>

\* dk = kdf.Next(kdf.iters >> p), while the clocks advance
WBatch ==
  /\ pc = "batch"
  /\ batches <= MaxBatches
  /\ \E r \in {Next(kdf, heap, shr(kdf.iters, call.p))} :
       /\ \E g \in {live(r.heap, r.kdf, r.ret)} :
            /\ kdf' = g.kdf
            /\ heap' = g.heap
            /\ dk' = g.dk
       /\ pc' = IF r.panic = "" THEN "pred" ELSE "crash"
       /\ sum' = IF r.panic = "" THEN sum + shr(kdf.iters, call.p) ELSE sum
  /\ batches' = batches + 1
  /\ \E dt \in 0..MaxDt, du \in 0..MaxDt :
       /\ now' = now + dt
       /\ cpu' = cpu + du
  /\ UNCHANGED <<err, main, ch, call, tm, log, calls, epoch, last, want>>

\* the goroutine returns and its deferred close(ch) runs
WExit ==
  /\ pc = "exit"
  /\ pc' = "none"
  /\ ch' = "closed"
  /\ UNCHANGED <<kdf, heap, dk, err, main, call, tm, now, cpu, log, batches,
                 sum, calls, epoch, last, want>>

\* a return of Search that hands the key out whatever the error
ReturnKeepsKey ==
  /\ main = "wait"
  /\ ch = "closed"
  /\ err' = IF call.kind = "derive" THEN err
            ELSE IF call.kind = "Derive" \/ err = KeyFound THEN NIL
            ELSE IF err = NIL THEN ErrTimeout ELSE err
  /\ want' = IF call.kind = "Derive"
             THEN [set |-> TRUE, key |-> Bytes(heap, dk), itr |-> Iters(kdf)]
             ELSE want
  /\ main' = "idle"
  /\ ch' = "none"
  /\ tm' = timer(0, 0)
  /\ now' = WallEpoch
  /\ cpu' = UserEpoch
  /\ UNCHANGED <<kdf, heap, dk, pc, call, log, batches, sum, calls, epoch, last>>

\* a derive that returns without waiting for the channel to be closed
ReturnEarly ==
  /\ main = "wait"
  /\ \E g \in {live(heap, kdf, IF call.kind = "Search" /\ err /= KeyFound
                                 THEN NilSlice ELSE dk)} :
       /\ dk' = g.dk
       /\ heap' = g.heap
  /\ err' = IF call.kind = "derive" THEN err
            ELSE IF call.kind = "Derive" \/ err = KeyFound THEN NIL
            ELSE IF err = NIL THEN ErrTimeout ELSE err
  /\ want' = IF call.kind = "Derive"
             THEN [set |-> TRUE, key |-> Bytes(heap, dk), itr |-> Iters(kdf)]
             ELSE want
  /\ main' = "idle"
  /\ ch' = "none"
  /\ tm' = timer(0, 0)
  /\ now' = WallEpoch
  /\ cpu' = UserEpoch
  /\ UNCHANGED <<kdf, pc, call, log, batches, sum, calls, epoch, last>>

\* <-ch returns and derive with it; Derive drops the error, Search maps
\* KeyFound to a nil error and anything else to a nil key, with ErrTimeout
\* for a nil error; a direct caller of derive gets its results as they are.
\* A caller of Derive keeps the key and Iters().
Return ==
  /\ main = "wait"
  /\ ch = "closed"
  /\ \E g \in {live(heap, kdf, IF call.kind = "Search" /\ err /= KeyFound
                                 THEN NilSlice ELSE dk)} :
       /\ dk' = g.dk
       /\ heap' = g.heap
  /\ err' = IF call.kind = "derive" THEN err
            ELSE IF call.kind = "Derive" \/ err = KeyFound THEN NIL
            ELSE IF err = NIL THEN ErrTimeout ELSE err
  /\ want' = IF call.kind = "Derive"
             THEN [set |-> TRUE, key |-> Bytes(heap, dk), itr |-> Iters(kdf)]
             ELSE want
  /\ main' = "idle"
  /\ ch' = "none"
  /\ tm' = timer(0, 0)
  /\ now' = WallEpoch
  /\ cpu' = UserEpoch
  /\ UNCHANGED <<kdf, pc, call, log, batches, sum, calls, epoch, last>>

Next_ ==
  \/ \E c \in (-1)..MaxCount : NextCall(c)
  \/ \E salt \in SaltArgs, n \in (-1)..MaxDkLen : ResetCall(salt, n)
  \/ Scribble
  \/ \E d \in Durations : DeriveCall(d)
  \/ \E d \in Durations, f \in {"tryKey", "anyf"} : SearchCall(d, f)
  \/ WStart
  \/ WPred
  \/ WBatch
  \/ WExit
  \/ Return

Spec == Init /\ [][Next_]_vars

\* The same State with derive called directly, at every precision
NextP ==
  \/ \E c \in 1..MaxCount : NextCall(c)
  \/ \E d \in {0, MaxD}, p \in 0..MaxP : deriveDirect(d, p)
  \/ WStart
  \/ WPred
  \/ WBatch
  \/ WExit
  \/ Return

SpecP == Init /\ [][NextP]_vars

(***************************************************************************)
(* Next, Derive and Search under a wall clock that keeps advancing: every  *)
(* batch of derive takes time on the wall clock (and any or no user time), *)
(* and the                                                                 *)
(* goroutine and the caller waiting for it are scheduled: a batch, a call  *)
(* of the predicate, the close of the channel and the receive from it each *)
(* happen once they can.                                                   *)
(***************************************************************************)
WStartTick == WStart /\ now' > now

WBatchTick == WBatch /\ now' > now

NextL ==
  \/ \E c \in 1..MaxCount : NextCall(c)
  \/ \E d \in Durations : DeriveCall(d)
  \/ \E d \in Durations : SearchCall(d, "anyf")
  \/ WStartTick
  \/ WPred
  \/ WBatchTick
  \/ WExit
  \/ Return

\* the steps of WStartTick, of WBatchTick and of Return, told by what
\* they change: the goroutine leaves its start, or completes one more batch,
\* with the wall clock ahead; the caller stops waiting
Started == pc = "start" /\ pc' \in {"pred", "crash"} /\ now' \in (now + 1)..(now + MaxDt)

Batched ==
  /\ pc = "batch"
  /\ batches <= MaxBatches
  /\ batches' = batches + 1
  /\ now' \in (now + 1)..(now + MaxDt)

Received == main = "wait" /\ ch = "closed" /\ main' = "idle"

SpecL ==
  /\ Init
  /\ [][NextL]_vars
  /\ WF_pc(Started)
  /\ WF_vars(WPred)
  /\ WF_batches(Batched)
  /\ WF_vars(WExit)
  /\ WF_main(Received)

(***************************************************************************)
(* The timer on its own: one timer is created, the two clocks advance,     *)
(* and elapsed is asked about every duration of the width.  log holds the  *)
(* last question: d, the wall and user time elapsed, and the answer.       *)
(***************************************************************************)
\* the longest time the clocks run: the largest Duration
MaxElapsed == 2 ^ (TimeBits - 1) - 1

\* every Duration of the width
AllDurations == (-(2 ^ (TimeBits - 1)))..MaxElapsed

InitT == Init /\ kdf.dkLen = 0 /\ kdf.salt.len = 0

\* timer{time.Now(), utime()}
NewTimer ==
  /\ tm = timer(0, 0)
  /\ tm' = timer(now, cpu)
  /\ last' = [op |-> "timer", panic |-> ""]
  /\ UNCHANGED <<kdf, heap, dk, err, main, pc, ch, call, now, cpu, log,
                 batches, sum, calls, epoch, want>>

\* time passes: the wall clock advances, the user time may
Tick ==
  /\ tm /= timer(0, 0)
  /\ now - tm.wall < MaxElapsed
  /\ \E dt \in 1..MaxDt, du \in 0..MaxDt :
       /\ now' = now + dt
       /\ cpu' = cpu + du
  /\ log' = <<>>
  /\ last' = [op |-> "tick", panic |-> ""]
  /\ UNCHANGED <<kdf, heap, dk, err, main, pc, ch, call, tm, batches, sum,
                 calls, epoch, want>>

\* t.elapsed(d)
ElapsedCall(d) ==
  /\ tm /= timer(0, 0)
  /\ log' = <<[d    |-> d,
               wall |-> now - tm.wall,
               user |-> cpu - tm.user,
               res  |-> elapsed(tm, d, now, cpu)]>>
  /\ last' = [op |-> "elapsed", panic |-> ""]
  /\ UNCHANGED <<kdf, heap, dk, err, main, pc, ch, call, tm, now, cpu, batches,
                 sum, calls, epoch, want>>

NextT ==
  \/ NewTimer
  \/ Tick
  \/ \E d \in AllDurations : ElapsedCall(d)

SpecT == InitT /\ [][NextT]_vars

(***************************************************************************)
(* Properties.                                                             *)
(***************************************************************************)
\* the password, the salt and the first dkLen bytes of T of the state
Password == kdf.prf.key

SaltBytes == Bytes(heap, kdf.salt)

KeyOfT == SubSeq(Bytes(heap, kdf.t), 1, kdf.dkLen)

InvalidCount == "pbkdf2: invalid iteration count"

\* the caller's last operation was a Next that returned
NextReturned == main = "idle" /\ last.op = "Next" /\ last.panic = ""

\* a Derive or a Search has returned and the caller has made no call since
Returned(kind) == main = "idle" /\ last = [op |-> kind, panic |-> ""]

\* C1: on a State fresh from New, the key the last of the calls Next(c1),
\* ..., Next(ck) returns is the key New and a single Next(c1 + ... + ck)
\* return for the same password, salt and key length
C1_Resumable ==
  (NextReturned /\ epoch.by = "New")
    => Bytes(heap, dk) = Key(Password, SaltBytes, sum, kdf.dkLen)

C1_Witness ==
  /\ NextReturned
  /\ epoch.by = "New"
  /\ calls >= 2
  /\ sum >= 3
  /\ dk.len > hLen

\* RFC 2898, section 5.2, written without buffers
INT(i) == <<(i \div 16777216) % 256, (i \div 65536) % 256, (i \div 256) % 256, i % 256>>

PRF(P, msg) == prfDigest([key |-> P, data |-> msg])

RECURSIVE U(_, _, _, _)
U(P, S, i, k) == IF k = 1 THEN PRF(P, S \o INT(i)) ELSE PRF(P, U(P, S, i, k - 1))

RECURSIVE F(_, _, _, _)
F(P, S, c, i) ==
  IF c = 1 THEN U(P, S, i, 1)
  ELSE [j \in 1..hLen |-> xor(F(P, S, c - 1, i)[j], U(P, S, i, c)[j])]

RECURSIVE T(_, _, _, _)
T(P, S, c, n) == IF n = 0 THEN <<>> ELSE T(P, S, c, n - 1) \o F(P, S, c, n)

RFC2898(P, S, c, dkLen) == SubSeq(T(P, S, c, (dkLen + hLen - 1) \div hLen), 1, dkLen)

\* C2: the key of New followed by one Next(c), c >= 1, is the RFC 2898
\* key: the first dkLen bytes of T_1 || ... || T_n, with T_i the xor of
\* U_1 = PRF(salt || INT(i)) and its c - 1 successors U_(k+1) = PRF(U_k)
C2_Reference ==
  (NextReturned /\ epoch.by = "New" /\ calls = 1)
    => Bytes(heap, dk) = RFC2898(Password, SaltBytes, sum, kdf.dkLen)

C2_Witness ==
  /\ NextReturned
  /\ epoch.by = "New"
  /\ calls = 1
  /\ sum >= 2
  /\ dk.len > hLen

\* C3: when Search returns, the key is non-nil and the error nil exactly
\* if the last answer of the predicate was KeyFound, and the key is then
\* the one that invocation was given; after another error the key is nil
\* and the error is that error; after a nil answer the key is nil and the
\* error is ErrTimeout.  Every earlier answer was nil.
C3_SearchResult ==
  Returned("Search") =>
    /\ Len(log) >= 1
    /\ \A i \in 1..(Len(log) - 1) : log[i].res = NIL
    /\ (dk /= NilSlice /\ err = NIL) <=> (log[Len(log)].res = KeyFound)
    /\ log[Len(log)].res = KeyFound => Bytes(heap, dk) = log[Len(log)].out
    /\ log[Len(log)].res = ErrOther => (dk = NilSlice /\ err = ErrOther)
    /\ log[Len(log)].res = NIL => (dk = NilSlice /\ err = ErrTimeout)

C3_Witness ==
  /\ Returned("Search")
  /\ Len(log) >= 2
  /\ log[Len(log)].res = KeyFound
  /\ dk.len > 0
  /\ err = NIL

\* the count after the i-th batch of derive: 1024, then n + (n >> 4)
RECURSIVE visited(_)
visited(i) == IF i = 1 THEN 1024 ELSE visited(i - 1) + visited(i - 1) \div 16

\* the predicate of the Search that returned was asked at count N, the
\* Iters() of the Derive, and no earlier key it was given is the Derive's
ReachedWanted ==
  \E i \in 1..Len(log) :
    /\ log[i].iters = want.itr
    /\ \A j \in 1..(i - 1) : log[j].key /= want.key

\* C4: Derive and Search ask the predicate at the same counts, whatever
\* the clocks do, and a Search with a predicate that answers KeyFound
\* exactly for the key K a Derive returned at Iters() = N, on the same
\* password, salt and key length, returns K with a nil error and leaves
\* Iters() = N, provided its predicate is asked at count N and no key of
\* an earlier count is K
C4_SameCounts ==
  /\ \A i \in 1..Len(log) : log[i].iters = visited(i)
  /\ (Returned("Search") /\ call.f = "tryKey" /\ want.set /\ ReachedWanted)
       => /\ dk /= NilSlice
          /\ Bytes(heap, dk) = want.key
          /\ err = NIL
          /\ Iters(kdf) = want.itr

C4_Witness ==
  /\ Returned("Search")
  /\ call.f = "tryKey"
  /\ want.set
  /\ want.itr > FirstBatch
  /\ ReachedWanted
  /\ Bytes(heap, dk) = want.key
  /\ dk.len > hLen
  /\ Iters(kdf) = want.itr

\* C5: after Next, Derive or Search calls have advanced the State,
\* Reset(nil, 0) followed by Next(c), c >= 1, returns the key a State new
\* from the same password, salt and key length returns for Next(c)
C5_ResetRestores ==
  (main = "idle" /\ last.op = "Next" /\ last.panic /= InvalidCount
     /\ epoch.by = "Reset(nil, 0)" /\ epoch.used /\ calls <= 1)
    => /\ last.panic = ""
       /\ calls = 1
       /\ Bytes(heap, dk) = Key(Password, SaltBytes, sum, kdf.dkLen)

C5_Witness ==
  /\ NextReturned
  /\ epoch.by = "Reset(nil, 0)"
  /\ epoch.used
  /\ calls = 1
  /\ sum >= 2
  /\ dk.len > hLen

\* C6: Next(c) with c <= 0 panics with the invalid-iteration-count message
\* and changes nothing: the struct (iteration count, buffers, salt, key
\* length), the storage and the key the caller holds are as before, so the
\* calls that follow find the State the failed call found
C6_InvalidCount ==
  [][\A c \in (-1)..0 :
       (last'.op = "Next" /\ NextCall(c))
         => /\ last'.panic = InvalidCount
            /\ kdf' = kdf
            /\ heap' = heap
            /\ dk' = dk
            /\ sum' = sum]_vars

C6_Witness ==
  /\ main = "idle"
  /\ last = [op |-> "Next", panic |-> InvalidCount]
  /\ kdf.iters = 0
  /\ kdf.t = NilSlice
  /\ calls = 0

\* C7: Iters() is the sum of the counts of the Next calls that returned
\* since the State was new or last reset, the first of them included, and
\* a Next(c) that returns adds exactly c to it
C7_ItersIsSum ==
  /\ [](Iters(kdf) = sum)
  /\ [][\A c \in 1..MaxCount :
          (last'.op = "Next" /\ NextCall(c))
            => (last'.panic = "" /\ Iters(kdf') = Iters(kdf) + c)]_vars

C7_Witness ==
  /\ NextReturned
  /\ calls = 2
  /\ Iters(kdf) = 2 * MaxCount
  /\ kdf.u.len > hLen

\* the arrays of the struct
Own == {kdf.salt.arr, kdf.t.arr, kdf.u.arr}

\* C8: a key handed out (to the caller, or to the predicate of Search) is
\* a copy of the first dkLen bytes of T in storage of its own, and a step
\* that overwrites its bytes changes neither the struct nor the bytes of
\* T, U and the salt, hence no key a later Next returns
C8_KeysAreCopies ==
  /\ []((dk /= NilSlice) => dk.arr \notin Own)
  /\ []((NextReturned \/ pc = "pred") => Bytes(heap, dk) = KeyOfT)
  /\ [][(Scribble \/ WPred) =>
          /\ kdf' = kdf
          /\ Bytes(heap', kdf.t) = Bytes(heap, kdf.t)
          /\ Bytes(heap', kdf.u) = Bytes(heap, kdf.u)
          /\ Bytes(heap', kdf.salt) = Bytes(heap, kdf.salt)]_vars

C8_Witness ==
  /\ main = "idle"
  /\ last.op = "Scribble"
  /\ dk.len > hLen
  /\ Bytes(heap, dk) /= KeyOfT
  /\ kdf.iters > FirstBatch

\* C9: in a Derive or Search the predicate is asked once after every
\* batch, before the next batch and before the return: the invocations are
\* as many as the batches, less the one whose key is about to be
\* presented; their iteration counts increase strictly; and each was given
\* the key of the State's iteration count at that time, the first dkLen
\* bytes of T
C9_OncePerBatch ==
  /\ pc = "pred" => (Len(log) = batches - 1 /\ Bytes(heap, dk) = KeyOfT)
  /\ (pc \in {"batch", "exit"} \/ (pc = "none" /\ call.kind /= "none"))
       => /\ Len(log) = batches
          /\ log[Len(log)].iters = Iters(kdf)
          /\ log[Len(log)].key = KeyOfT
  /\ \A i \in 1..(Len(log) - 1) : log[i].iters < log[i + 1].iters
  /\ pc = "pred" /\ Len(log) >= 1 => log[Len(log)].iters < Iters(kdf)

C9_Witness ==
  /\ pc = "exit"
  /\ batches = 3
  /\ Len(log) = 3
  /\ kdf.dkLen > hLen

\* C10: a Derive or Search with a duration d <= 0 runs the initial
\* Next(1024) and no other batch, asks the predicate once, with the key
\* of 1024 iterations, and returns with Iters() = 1024; and a Search whose
\* predicate answers KeyFound returns that key with a nil error
C10_NoTime ==
  (call.kind /= "none" /\ call.d <= 0) =>
    /\ pc /= "batch"
    /\ batches <= 1
    /\ pc \in {"exit", "none"} =>
         /\ batches = 1
         /\ Len(log) = 1
         /\ log[1].iters = FirstBatch
         /\ log[1].key = KeyOfT
         /\ Iters(kdf) = FirstBatch
    /\ (Returned("Search") /\ log[1].res = KeyFound)
         => (dk /= NilSlice /\ err = NIL /\ Bytes(heap, dk) = log[1].out)
    /\ Returned("Derive") => (dk /= NilSlice /\ Bytes(heap, dk) = log[1].key)

C10_Witness ==
  /\ Returned("Search")
  /\ call.d < -1
  /\ log[1].res = KeyFound
  /\ err = NIL
  /\ dk.len > hLen
  /\ Iters(kdf) = FirstBatch

InvalidPrecision == "pbkdf2: invalid derivation precision"

\* C11: derive called with a precision above 10 (p is a uint, so there is
\* none below 0) panics with the invalid-precision message before it
\* changes anything: the struct and the storage are as they were (no
\* Reset), no goroutine is started, the caller does not wait, and the
\* predicate is not invoked
C11_InvalidPrecision ==
  /\ [](last.panic = InvalidPrecision
          => (main = "idle" /\ pc = "none" /\ ch = "none"))
  /\ [][\A d \in {0, MaxD}, p \in 11..MaxP :
          (main' = "idle" /\ deriveDirect(d, p))
            => /\ last'.panic = InvalidPrecision
               /\ UNCHANGED <<kdf, heap, dk, err, main, pc, ch, call, tm, log,
                              batches, sum>>]_vars

C11_Witness ==
  /\ last = [op |-> "derive", panic |-> InvalidPrecision]
  /\ main = "idle"
  /\ kdf.iters > FirstBatch
  /\ kdf.t.len > hLen
  /\ Len(log) >= 1

\* C12: a Derive or Search runs its loop in one goroutine while the caller
\* waits: the goroutine exists only while the caller waits on the open
\* channel, the caller resumes only after the goroutine has ended and
\* closed the channel, the key and error it gets are those the goroutine
\* left (as Derive and Search map them), every batch and every invocation
\* of the predicate happens while the caller waits, and once the call has
\* returned nothing is left of it that could return again
C12_OneWorker ==
  /\ [](pc /= "none" => (main = "wait" /\ ch = "open"))
  /\ [](main = "idle" => (pc = "none" /\ ch = "none"))
  /\ [][(main = "wait" /\ main' = "idle")
          => /\ ch = "closed" /\ pc = "none"
             /\ kdf' = kdf /\ log' = log /\ batches' = batches
             /\ dk' /= NilSlice => (dk /= NilSlice
                                    /\ Bytes(heap', dk') = Bytes(heap, dk))
             /\ call.kind = "Derive" => (dk' /= NilSlice /\ err' = NIL)
             /\ call.kind = "Search" =>
                  /\ (dk' /= NilSlice) <=> (err = KeyFound)
                  /\ err' = (IF err = KeyFound THEN NIL
                             ELSE IF err = NIL THEN ErrTimeout ELSE err)]_vars
  /\ [][(batches' > batches \/ Len(log') > Len(log))
          => (main = "wait" /\ main' = "wait" /\ ch = "open" /\ ch' = "open")]_vars

C12_Witness ==
  /\ main = "wait"
  /\ ch = "closed"
  /\ pc = "none"
  /\ batches = 3
  /\ Len(log) = 3
  /\ call.kind = "Search"
  /\ err = ErrOther

C14_ElapsedCases ==
  \A i \in 1..Len(log) :
    last.op = "elapsed"
      => /\ log[i].wall < log[i].d => ~log[i].res
         /\ log[i].wall >= 2 * log[i].d => log[i].res
         /\ (log[i].d <= log[i].wall /\ log[i].wall < 2 * log[i].d)
              => (log[i].res <=> log[i].user >= log[i].d)

\* the same for the durations whose double is a Duration
C14_ElapsedCasesInRange ==
  \A i \in 1..Len(log) :
    (last.op = "elapsed" /\ 2 * log[i].d <= MaxElapsed)
      => /\ log[i].wall < log[i].d => ~log[i].res
         /\ log[i].wall >= 2 * log[i].d => log[i].res
         /\ (log[i].d <= log[i].wall /\ log[i].wall < 2 * log[i].d)
              => (log[i].res <=> log[i].user >= log[i].d)

\* d with d<<1 out of range, d of wall time elapsed and no user time:
\* elapsed answers true
C14_Witness ==
  /\ last.op = "elapsed"
  /\ log = <<[d |-> 2 ^ (TimeBits - 2), wall |-> 2 ^ (TimeBits - 2),
              user |-> 0, res |-> TRUE]>>

\* C15: the time is looked at only between batches (the goroutine leaves
\* only from the check after the predicate), a batch once begun performs
\* all of its iterations, no batch begins after a check at which the wall
\* clock has reached twice the adjusted duration, whatever the user time,
\* so a batch begins only while the wall clock is short of that; and with
\* the wall clock advancing and every step of the goroutine taken, every
\* call that waits returns
C15_Timeout ==
  /\ [][pc' = "exit" => (pc = "pred" \/ pc = "exit")]_vars
  /\ [][(pc = "batch" /\ pc' /= "batch")
          => /\ pc' = "pred"
             /\ kdf'.iters = kdf.iters + shr(kdf.iters, call.p)
             /\ batches' = batches + 1]_vars
  /\ [][(pc = "pred" /\ pc' /= "pred" /\ now - tm.wall >= 2 * call.dd)
          => pc' = "exit"]_vars
  /\ [](pc = "batch" => now - tm.wall < 2 * call.dd)
  /\ (main = "wait") ~> (main = "idle")

C15_Witness ==
  /\ pc = "exit"
  /\ err = NIL
  /\ call.dd > 0
  /\ now - tm.wall >= 2 * call.dd
  /\ cpu - tm.user < call.dd
  /\ batches >= 2

\* C16 as stated: in every state the iteration count is 0 if and only if
\* T and U are empty
C16_ZeroIffEmpty ==
  (kdf.iters = 0) <=> (kdf.t.len = 0 /\ kdf.u.len = 0)

\* C16: in every state T and U are empty if and only if the iteration
\* count is 0 or the key length is 0 (a State made with key length 0 counts
\* its iterations over buffers of no bytes), both are nil when the count is
\* 0, and one is empty exactly when the other is
C16_EmptyBuffers ==
  /\ (kdf.t.len = 0 /\ kdf.u.len = 0) <=> (kdf.iters = 0 \/ kdf.dkLen = 0)
  /\ kdf.iters = 0 => (kdf.t = NilSlice /\ kdf.u = NilSlice)
  /\ (kdf.t.len = 0) <=> (kdf.u.len = 0)

C16_Witness ==
  /\ NextReturned
  /\ kdf.dkLen = 0
  /\ kdf.iters >= 2
  /\ kdf.t.len = 0
  /\ kdf.t /= NilSlice

\* the bytes of storage a slice shows, as places in its array
places(s) == {<<s.arr, i>> : i \in (s.off + 1)..(s.off + s.len)}

\* C17: in every state with a non-zero iteration count T and U have the
\* same length, which is the key length rounded up to whole digests and so
\* no less than the key length, and they share no byte of storage; and a
\* Next that adds to a non-zero count leaves both lengths and the key
\* length as they were
C17_BufferLengths ==
  /\ [](kdf.iters /= 0
          => /\ kdf.t.len = ((kdf.dkLen + hLen - 1) \div hLen) * hLen
             /\ kdf.u.len = kdf.t.len
             /\ kdf.t.len >= kdf.dkLen
             /\ kdf.t.len - kdf.dkLen < hLen
             /\ places(kdf.t) \cap places(kdf.u) = {}
             /\ kdf.t.off + kdf.t.len <= Len(heap[kdf.t.arr])
             /\ kdf.u.off + kdf.u.len <= Len(heap[kdf.u.arr]))
  /\ [][(kdf.iters /= 0 /\ kdf'.iters > kdf.iters)
          => /\ kdf'.t.len = kdf.t.len
             /\ kdf'.u.len = kdf.u.len
             /\ kdf'.t.off = kdf.t.off
             /\ kdf'.u.off = kdf.u.off
             /\ kdf'.dkLen = kdf.dkLen]_vars

C17_Witness ==
  /\ NextReturned
  /\ calls = 2
  /\ kdf.iters >= 3
  /\ kdf.dkLen = 3
  /\ kdf.t.len = 4
  /\ dk.len = 3

\* C18: the step that begins a Derive or Search leaves the State at
\* iteration count 0 with nil buffers and with the salt, the key length and
\* the keyed hash it had; so the goroutine begins at count 0, the counts at
\* which the predicate is asked are 1024 and then each the one before plus
\* its sixteenth, whether or not the State had iterated before the call,
\* and when it had, the key held after each batch is the key a new State
\* gives for that count
C18_DeriveResets ==
  /\ [][(main = "idle" /\ main' = "wait")
          => /\ kdf'.iters = 0
             /\ kdf'.t = NilSlice /\ kdf'.u = NilSlice
             /\ Bytes(heap', kdf'.salt) = Bytes(heap, kdf.salt)
             /\ kdf'.dkLen = kdf.dkLen
             /\ kdf'.prf = kdf.prf]_vars
  /\ [](pc = "start" => kdf.iters = 0)
  /\ []((call.kind \in {"Derive", "Search"})
          => \A i \in 1..Len(log) : log[i].iters = visited(i))
  /\ []((pc = "pred" /\ call.kind \in {"Derive", "Search"})
          => /\ kdf.iters = visited(batches)
             /\ epoch.used
                  => Bytes(heap, dk)
                       = Key(Password, SaltBytes, kdf.iters, kdf.dkLen))

C18_Witness ==
  /\ pc = "pred"
  /\ call.kind = "Search"
  /\ epoch = [by |-> "derive", used |-> TRUE]
  /\ batches = 2
  /\ kdf.iters = FirstBatch + FirstBatch \div 16
  /\ dk.len = MaxDkLen

\* C19 as stated: when Derive has returned, and when Search has returned
\* a key, the key returned is Key(password, salt, Iters(), Size()) and
\* Iters() is at least 1024
C19_KeyAtIters ==
  (Returned("Derive") \/ (Returned("Search") /\ dk /= NilSlice))
    => /\ Iters(kdf) >= FirstBatch
       /\ Bytes(heap, dk) = Key(Password, SaltBytes, Iters(kdf), Size(kdf))

\* C19: when Derive has returned, the key returned is
\* Key(password, salt, Iters(), Size()) and Iters() is at least 1024; when
\* Search has returned a key, Iters() is at least 1024, the key the last
\* invocation of the predicate was given was Key(password, salt, Iters(),
\* Size()), and the key returned is that same slice with the bytes the
\* predicate left in it
C19_ReturnedKey ==
  /\ Returned("Derive")
       => /\ Iters(kdf) >= FirstBatch
          /\ Bytes(heap, dk) = Key(Password, SaltBytes, Iters(kdf), Size(kdf))
  /\ (Returned("Search") /\ dk /= NilSlice)
       => /\ Iters(kdf) >= FirstBatch
          /\ Len(log) >= 1
          /\ log[Len(log)].iters = Iters(kdf)
          /\ log[Len(log)].key = Key(Password, SaltBytes, Iters(kdf), Size(kdf))
          /\ Bytes(heap, dk) = log[Len(log)].out

C19_Witness ==
  /\ Returned("Search")
  /\ dk /= NilSlice
  /\ Len(log) >= 2
  /\ Iters(kdf) > FirstBatch
  /\ log[Len(log)].out /= log[Len(log)].key
  /\ log[Len(log)].key = KeyOfT

\* C20: with a precision from 0 to 10 the goroutine never gives Next a
\* count below 1: the count stands at 1024 or more from the first batch on,
\* so the size iters >> p of every later batch is at least 1 (exactly 1 for
\* the first of them when p = 10), Next never panics in the loop, and every
\* batch leaves the iteration count larger than it found it
C20_PositiveBatches ==
  /\ [](pc /= "crash")
  /\ []((pc \in {"pred", "batch", "exit"}) => kdf.iters >= FirstBatch)
  /\ []((pc = "batch" /\ call.p \in 0..10)
          => /\ shr(kdf.iters, call.p) >= 1
             /\ (call.p = 10 /\ batches = 1) => shr(kdf.iters, call.p) = 1)
  /\ [][batches' > batches
          => /\ kdf'.iters > kdf.iters
             /\ pc' = "pred"
             /\ batches > 0 => kdf'.iters = kdf.iters + shr(kdf.iters, call.p)]_vars

C20_Witness ==
  /\ pc = "pred"
  /\ call.kind = "derive"
  /\ call.p = 10
  /\ batches = 3
  /\ kdf.iters = FirstBatch + 2

=============================================================================
